---- MODULE Spec2Model ----
(***************************************************************************)
(* Model of the Wyze button/dashboard glue: the TokenManager of            *)
(* token_manager.py (one instance per OS process), the GPIO press handler  *)
(* of button.py and the dashboard route of main.py.                        *)
(*                                                                         *)
(* Time is one wall clock (time.time() and datetime.now()), counted in     *)
(* ticks of 1/TicksPerSecond second, so that a press half a second after   *)
(* another one can be told from a press a full second after it.            *)
(***************************************************************************)
EXTENDS Integers, Sequences, FiniteSets, TLC

\* ---------------------------------------------------------------- bounds
TicksPerSecond == 2
\* the clock starts here (time.time() is far from 0) and stops MaxTime later
StartTime == 4
MaxTime == 3
\* Client instances created over a run
MaxClients == 3

\* ------------------------------------------------------------- constants
None == "None"
NoExpiry == -1
ExpiryBuffer == (5 * 60) * TicksPerSecond
DefaultLifetime == 3600 * TicksPerSecond
debounce_delay == 1 * TicksPerSecond

Procs == {"button", "web"}
AccessTokens == {"a1", "a2"}
RefreshTokens == {"r1"}
\* expires_in values a login/refresh response may carry (in ticks)
Lifetimes == {1 * TicksPerSecond, 301 * TicksPerSecond}

\* ------------------------------------------------------ vendor responses
\* token_data of a successful login or refresh; expires_in may be missing
TokenData ==
    [access_token : AccessTokens, refresh_token : RefreshTokens,
     expires_in : Lifetimes]
    \cup [access_token : AccessTokens, refresh_token : RefreshTokens]

\* outcome of one auth call: a response, or WyzeApiError
AuthOutcomes == [ok : {TRUE}, data : TokenData] \cup {[ok |-> FALSE]}
NetInputs == [refresh : AuthOutcomes, login : AuthOutcomes]

\* ------------------------------------------------------------ TokenManager
NoClient == [id |-> 0, token |-> None]
Client(token, cid) == [id |-> cid, token |-> token]

TokenManagerInit ==
    [access_token |-> None, refresh_token |-> None,
     expires_at |-> NoExpiry, client |-> NoClient]

\* an update that keeps a client once it has one
UpdateTokensAndClient_KeepClient(self, token_data, t, cid) ==
    [access_token  |-> token_data.access_token,
     refresh_token |-> token_data.refresh_token,
     expires_at    |-> t + (IF "expires_in" \in DOMAIN token_data
                            THEN token_data.expires_in
                            ELSE DefaultLifetime),
     client        |-> IF self.client = NoClient
                       THEN Client(token_data.access_token, cid)
                       ELSE self.client]

\* an update that leaves the refresh token as it was
UpdateTokensAndClient_NoRefreshToken(self, token_data, t, cid) ==
    [access_token  |-> token_data.access_token,
     refresh_token |-> self.refresh_token,
     expires_at    |-> t + (IF "expires_in" \in DOMAIN token_data
                            THEN token_data.expires_in
                            ELSE DefaultLifetime),
     client        |-> Client(token_data.access_token, cid)]

\* an update that defaults to half an hour
UpdateTokensAndClient_HalfDefault(self, token_data, t, cid) ==
    [access_token  |-> token_data.access_token,
     refresh_token |-> token_data.refresh_token,
     expires_at    |-> t + (IF "expires_in" \in DOMAIN token_data
                            THEN token_data.expires_in
                            ELSE DefaultLifetime \div 2),
     client        |-> Client(token_data.access_token, cid)]

UpdateTokensAndClient(self, token_data, t, cid) ==
    [access_token  |-> token_data.access_token,
     refresh_token |-> token_data.refresh_token,
     expires_at    |-> t + (IF "expires_in" \in DOMAIN token_data
                            THEN token_data.expires_in
                            ELSE DefaultLifetime),
     client        |-> Client(token_data.access_token, cid)]

\* a manager that refreshes 10 minutes before expiry
IsTokenExpired_TenMinutes(self, t) ==
    IF self.access_token = None \/ self.expires_at = NoExpiry
    THEN TRUE
    ELSE t >= self.expires_at - 2 * ExpiryBuffer

\* a manager that still trusts the token at the instant 5 minutes before expiry
IsTokenExpired_Strict(self, t) ==
    IF self.access_token = None \/ self.expires_at = NoExpiry
    THEN TRUE
    ELSE t > self.expires_at - ExpiryBuffer

IsTokenExpired(self, t) ==
    IF self.access_token = None \/ self.expires_at = NoExpiry
    THEN TRUE
    ELSE t >= self.expires_at - ExpiryBuffer

\* a login that prints the error and returns instead of re-raising it
Login_Swallow(self, net, t, cid) ==
    IF net.login.ok
    THEN [self |-> UpdateTokensAndClient(self, net.login.data, t, cid),
          raised |-> FALSE, calls |-> <<"login">>, outs |-> <<"ok">>,
          applied |-> <<net.login.data>>]
    ELSE [self |-> self, raised |-> FALSE, calls |-> <<"login">>,
          outs |-> <<"WyzeApiError">>, applied |-> <<>>]

\* a login that forgets the tokens it held when it fails
Login_Reset(self, net, t, cid) ==
    IF net.login.ok
    THEN [self |-> UpdateTokensAndClient(self, net.login.data, t, cid),
          raised |-> FALSE, calls |-> <<"login">>, outs |-> <<"ok">>,
          applied |-> <<net.login.data>>]
    ELSE [self |-> TokenManagerInit, raised |-> TRUE, calls |-> <<"login">>,
          outs |-> <<"WyzeApiError">>, applied |-> <<>>]

\* _login: the response is applied, or WyzeApiError is re-raised
Login(self, net, t, cid) ==
    IF net.login.ok
    THEN [self |-> UpdateTokensAndClient(self, net.login.data, t, cid),
          raised |-> FALSE, calls |-> <<"login">>, outs |-> <<"ok">>,
          applied |-> <<net.login.data>>]
    ELSE [self |-> self, raised |-> TRUE, calls |-> <<"login">>,
          outs |-> <<"WyzeApiError">>, applied |-> <<>>]

\* a refresh that re-raises instead of falling back to a login
Refresh_NoFallback(self, net, t, cid) ==
    IF net.refresh.ok
    THEN [self |-> UpdateTokensAndClient(self, net.refresh.data, t, cid),
          raised |-> FALSE, calls |-> <<"refresh">>, outs |-> <<"ok">>,
          applied |-> <<net.refresh.data>>]
    ELSE [self |-> self, raised |-> TRUE, calls |-> <<"refresh">>,
          outs |-> <<"WyzeApiError">>, applied |-> <<>>]

\* _refresh: the response is applied, or WyzeApiError leads to _login
Refresh(self, net, t, cid) ==
    IF net.refresh.ok
    THEN [self |-> UpdateTokensAndClient(self, net.refresh.data, t, cid),
          raised |-> FALSE, calls |-> <<"refresh">>, outs |-> <<"ok">>,
          applied |-> <<net.refresh.data>>]
    ELSE LET l == Login(self, net, t, cid)
         IN  [l EXCEPT !.calls = <<"refresh">> \o l.calls,
                       !.outs = <<"WyzeApiError">> \o l.outs]

\* get_client: what the call leaves in the manager, the auth calls it made,
\* whether it raised, and the client it returned
GetClient(self, net, t, cid) ==
    LET r == IF IsTokenExpired(self, t)
             THEN IF self.refresh_token # None
                  THEN Refresh(self, net, t, cid)
                  ELSE Login(self, net, t, cid)
             ELSE [self |-> self, raised |-> FALSE, calls |-> <<>>,
                   outs |-> <<>>, applied |-> <<>>]
    IN  [self |-> r.self, raised |-> r.raised, calls |-> r.calls,
         outs |-> r.outs, applied |-> r.applied,
         ret |-> IF r.raised THEN NoClient ELSE r.self.client]

\* ------------------------------------------------------------ config file
MACs == {"m1", "m2"}
Nickname(mac) == IF mac = "m1" THEN "Lamp" ELSE "Fan"

NoButtonDevice == [mac |-> None, nickname |-> None]
ButtonDevices == {[mac |-> m, nickname |-> Nickname(m)] : m \in MACs}
\* last_updated: None, or the time of the set (0: a set of an earlier run)
NoStamp == -1

\* button_config.json: absent, not JSON, or the object ButtonConfig writes
FileContents ==
    {[kind |-> "missing", button_device |-> NoButtonDevice, last_updated |-> NoStamp],
     [kind |-> "corrupt", button_device |-> NoButtonDevice, last_updated |-> NoStamp],
     [kind |-> "json", button_device |-> NoButtonDevice, last_updated |-> NoStamp]}
    \cup [kind : {"json"}, button_device : ButtonDevices, last_updated : {0}]

\* ----------------------------------------------------------- ButtonConfig
DefaultConfig == [button_device |-> NoButtonDevice, last_updated |-> NoStamp]

\* _load_config: the parsed file, or the default config when the file is
\* absent, unreadable or not JSON
LoadConfig(file, io_error) ==
    IF file.kind = "json" /\ ~io_error
    THEN [button_device |-> file.button_device, last_updated |-> file.last_updated]
    ELSE DefaultConfig

GetButtonDevice(config_data) == config_data.button_device

\* a set that keeps the nickname of the device configured before
SetButtonDevice_KeepNickname(config_data, mac, nickname, t) ==
    [button_device |-> [mac |-> mac,
                        nickname |-> IF config_data.button_device = NoButtonDevice
                                     THEN nickname
                                     ELSE config_data.button_device.nickname],
     last_updated |-> t]

SetButtonDevice(config_data, mac, nickname, t) ==
    [button_device |-> [mac |-> mac, nickname |-> nickname], last_updated |-> t]

ClearButtonDevice(config_data) ==
    [button_device |-> NoButtonDevice, last_updated |-> NoStamp]

\* json.dump(self.config_data, f): the file once the write is complete
Dump(config_data) ==
    [kind |-> "json", button_device |-> config_data.button_device,
     last_updated |-> config_data.last_updated]

\* the file between open(config_file, 'w') and the end of the write: empty
\* or cut short, which json.load rejects
Truncated ==
    [kind |-> "corrupt", button_device |-> NoButtonDevice, last_updated |-> NoStamp]

\* _save_config: True, or False when open or the write raised IOError
SaveResult(outcome) == outcome = "ok"

\* ------------------------------------------------------- device directory
SupportedTypes == {"Plug", "MeshLight", "Bulb", "Light"}
DeviceTypes == SupportedTypes \cup {"Camera"}
Devices == [mac : MACs, type : DeviceTypes, is_online : BOOLEAN]
NoDevice == [mac |-> None, type |-> None, is_online |-> FALSE]

\* how many devices the account lists
MaxDevices == 1
\* what devices_list() can return: devices with distinct MACs
SnapshotsOf(macs) ==
    {{[mac |-> m, type |-> f[m].type, is_online |-> f[m].is_online] : m \in macs} :
        f \in [macs -> [type : DeviceTypes, is_online : BOOLEAN]]}
Snapshots ==
    UNION {SnapshotsOf(macs) :
             macs \in {x \in SUBSET MACs : Cardinality(x) <= MaxDevices}}

\* the directories a lookup of mac can tell apart: it reads the type and the
\* online flag of that device alone
SnapshotsFor(mac) ==
    {s \in Snapshots : \A d \in s : d.mac # mac => (d.type = "Plug" /\ d.is_online)}

\* a vendor call returns, raises WyzeApiError, or raises something else
CallOutcomes == {"ok", "WyzeApiError", "Exception"}
\* an info call returns is_on, or raises
InfoOutcomes == {"on", "off", "WyzeApiError", "Exception"}

\* -------------------------------------------------------- press handler
NoCmd == [ctrl |-> None, op |-> None, mac |-> None]

\* device_controllers.get(device.type)
DeviceController(type) ==
    IF type = "Plug" THEN "plugs"
    ELSE IF type \in {"MeshLight", "Bulb", "Light"} THEN "bulbs"
    ELSE None

\* a read whose parse error is not the one get_target_device catches
ReadConfig_OtherParseError(file, io_error) ==
    IF file.kind = "missing" THEN [exc |-> "FileNotFoundError", cfg |-> NoButtonDevice]
    ELSE IF io_error THEN [exc |-> "IOError", cfg |-> NoButtonDevice]
    ELSE IF file.kind = "corrupt" THEN [exc |-> "ValueError", cfg |-> NoButtonDevice]
    ELSE [exc |-> None, cfg |-> file.button_device]

\* open() + json.load() + config_data.get('button_device')
ReadConfig(file, io_error) ==
    IF file.kind = "missing" THEN [exc |-> "FileNotFoundError", cfg |-> NoButtonDevice]
    ELSE IF io_error THEN [exc |-> "IOError", cfg |-> NoButtonDevice]
    ELSE IF file.kind = "corrupt" THEN [exc |-> "JSONDecodeError", cfg |-> NoButtonDevice]
    ELSE [exc |-> None, cfg |-> file.button_device]

\* a lookup that takes the first listed device whatever its MAC
FindDevice_AnyMac(snapshot, mac) ==
    IF snapshot # {}
    THEN CHOOSE d \in snapshot : TRUE
    ELSE NoDevice

\* a lookup that falls back on some listed device when the MAC is absent
FindDevice_Fallback(snapshot, mac) ==
    IF \E d \in snapshot : d.mac = mac
    THEN CHOOSE d \in snapshot : d.mac = mac
    ELSE IF snapshot # {} THEN CHOOSE d \in snapshot : TRUE
    ELSE NoDevice

\* next((d for d in devices if d.mac == mac), None)
FindDevice(snapshot, mac) ==
    IF \E d \in snapshot : d.mac = mac
    THEN CHOOSE d \in snapshot : d.mac = mac
    ELSE NoDevice

\* get_target_device: the device to act on, or none with a diagnostic, or
\* the exception that escapes it
GetTargetDevice(file, in) ==
    LET rd == ReadConfig(file, in.io_error)
        base == [exc |-> None, diag |-> None, cfg |-> rd.cfg, device |-> NoDevice,
                 listed |-> None, snap_macs |-> {}]
        dev == FindDevice(in.snapshot, rd.cfg.mac)
        seen == [base EXCEPT !.listed = in.list,
                             !.snap_macs = {d.mac : d \in in.snapshot}]
    IN  IF rd.exc = "FileNotFoundError" THEN [base EXCEPT !.diag = "not found"]
        ELSE IF rd.exc = "JSONDecodeError" THEN [base EXCEPT !.diag = "invalid json"]
        ELSE IF rd.exc # None THEN [base EXCEPT !.exc = rd.exc]
        ELSE IF rd.cfg = NoButtonDevice THEN [base EXCEPT !.diag = "no device configured"]
        ELSE IF in.list = "WyzeApiError"
             THEN [base EXCEPT !.listed = in.list, !.diag = "error getting device list"]
        ELSE IF in.list # "ok"
             THEN [base EXCEPT !.listed = in.list, !.exc = in.list]
        ELSE IF dev = NoDevice THEN [seen EXCEPT !.diag = "device not found"]
        ELSE IF ~dev.is_online THEN [seen EXCEPT !.diag = "device offline"]
        ELSE [seen EXCEPT !.device = dev]

\* get_device_state: is_on as observed, or the exception that escapes it
GetDeviceState(device, info) ==
    IF device.type = "Plug" \/ device.type \in {"MeshLight", "Bulb", "Light"}
    THEN IF info = "on" THEN [exc |-> None, is_on |-> TRUE, queried |-> TRUE]
         ELSE IF info = "off" THEN [exc |-> None, is_on |-> FALSE, queried |-> TRUE]
         ELSE IF info = "WyzeApiError"
              THEN [exc |-> None, is_on |-> FALSE, queried |-> TRUE]
         ELSE [exc |-> info, is_on |-> FALSE, queried |-> TRUE]
    ELSE [exc |-> None, is_on |-> FALSE, queried |-> FALSE]

\* a debounce test that also rejects a press exactly one delay later
Debounced_Inclusive(t, last_press_time) == t - last_press_time <= debounce_delay

\* a guard with half the delay
Debounced_HalfDelay(t, last_press_time) == t - last_press_time < debounce_delay \div 2

\* the debounce test of toggle_device
Debounced(t, last_press_time) == t - last_press_time < debounce_delay

\* a handler that sends the observed state instead of its inverse
CommandFor_NoInverse(device, st) ==
    IF st.exc # None THEN NoCmd
    ELSE IF DeviceController(device.type) = None THEN NoCmd
    ELSE [ctrl |-> DeviceController(device.type),
          op |-> IF st.is_on THEN "turn_on" ELSE "turn_off",
          mac |-> device.mac]

\* the part of toggle_device after the target is resolved
CommandFor(device, st) ==
    IF st.exc # None THEN NoCmd
    ELSE IF DeviceController(device.type) = None THEN NoCmd
    ELSE [ctrl |-> DeviceController(device.type),
          op |-> IF st.is_on THEN "turn_off" ELSE "turn_on",
          mac |-> device.mac]

NoPress ==
    [kind |-> "none", t |-> 0, pre_last |-> 0, last |-> 0,
     result |-> "returned", exc |-> None,
     file |-> [kind |-> "missing", button_device |-> NoButtonDevice,
               last_updated |-> NoStamp],
     info |-> None, diag |-> None, cfg |-> NoButtonDevice, listed |-> None, snap_macs |-> {},
     device |-> NoDevice, queried |-> FALSE, observed |-> None,
     cmd |-> NoCmd, cmd_out |-> None]

\* a handler that records the time of a press only once its command is sent
ToggleDevice_RecordOnCommand(last_press_time, file, t, in) ==
    LET tgt == GetTargetDevice(file, in)
        st == GetDeviceState(tgt.device, in.info)
        cmd == CommandFor(tgt.device, st)
        rec == [kind |-> "accepted", t |-> t, pre_last |-> last_press_time,
                last |-> t, result |-> "returned", exc |-> None,
                file |-> file, info |-> None, diag |-> tgt.diag, cfg |-> tgt.cfg, listed |-> tgt.listed,
                snap_macs |-> tgt.snap_macs, device |-> tgt.device,
                queried |-> FALSE, observed |-> None, cmd |-> NoCmd,
                cmd_out |-> None]
        out == IF Debounced(t, last_press_time)
            THEN [rec EXCEPT !.kind = "ignored", !.last = last_press_time,
                             !.diag = "debounce", !.cfg = NoButtonDevice,
                             !.file = NoPress.file,
                             !.listed = None, !.snap_macs = {},
                             !.device = NoDevice]
            ELSE IF tgt.exc # None
            THEN [rec EXCEPT !.result = "raised", !.exc = tgt.exc]
            ELSE IF tgt.device = NoDevice THEN rec
            ELSE IF st.exc # None
            THEN [rec EXCEPT !.queried = st.queried, !.info = in.info,
                             !.diag = "unexpected error"]
            ELSE IF cmd = NoCmd
            THEN [rec EXCEPT !.queried = st.queried,
                             !.observed = IF st.is_on THEN "ON" ELSE "OFF",
                             !.diag = "unsupported device type"]
            ELSE [rec EXCEPT !.queried = st.queried, !.info = in.info,
                             !.observed = IF st.is_on THEN "ON" ELSE "OFF",
                             !.cmd = cmd, !.cmd_out = in.cmd,
                             !.diag = IF in.cmd = "ok" THEN None
                                      ELSE IF in.cmd = "WyzeApiError"
                                      THEN "error controlling device"
                                      ELSE "unexpected error"]
    IN  [out EXCEPT !.last = IF out.cmd = NoCmd THEN last_press_time ELSE t]

\* toggle_device, one press at time t
ToggleDevice(last_press_time, file, t, in) ==
    LET tgt == GetTargetDevice(file, in)
        st == GetDeviceState(tgt.device, in.info)
        cmd == CommandFor(tgt.device, st)
        rec == [kind |-> "accepted", t |-> t, pre_last |-> last_press_time,
                last |-> t, result |-> "returned", exc |-> None,
                file |-> file, info |-> None, diag |-> tgt.diag, cfg |-> tgt.cfg, listed |-> tgt.listed,
                snap_macs |-> tgt.snap_macs, device |-> tgt.device,
                queried |-> FALSE, observed |-> None, cmd |-> NoCmd,
                cmd_out |-> None]
    IN  IF Debounced(t, last_press_time)
        THEN [rec EXCEPT !.kind = "ignored", !.last = last_press_time,
                         !.diag = "debounce", !.cfg = NoButtonDevice,
                         !.file = NoPress.file,
                         !.listed = None, !.snap_macs = {},
                         !.device = NoDevice]
        ELSE IF tgt.exc # None
        THEN [rec EXCEPT !.result = "raised", !.exc = tgt.exc]
        ELSE IF tgt.device = NoDevice THEN rec
        ELSE IF st.exc # None
        THEN [rec EXCEPT !.queried = st.queried, !.info = in.info,
                         !.diag = "unexpected error"]
        ELSE IF cmd = NoCmd
        THEN [rec EXCEPT !.queried = st.queried,
                         !.observed = IF st.is_on THEN "ON" ELSE "OFF",
                         !.diag = "unsupported device type"]
        ELSE [rec EXCEPT !.queried = st.queried, !.info = in.info,
                         !.observed = IF st.is_on THEN "ON" ELSE "OFF",
                         !.cmd = cmd, !.cmd_out = in.cmd,
                         !.diag = IF in.cmd = "ok" THEN None
                                  ELSE IF in.cmd = "WyzeApiError"
                                  THEN "error controlling device"
                                  ELSE "unexpected error"]

\* the inputs a press consults, given how far it gets
PressInputs(last_press_time, file, t) ==
    LET base == [io_error |-> FALSE, list |-> "ok", snapshot |-> {},
                 info |-> "off", cmd |-> "ok"]
        reads == ~Debounced(t, last_press_time) /\ file.kind # "missing"
        lists == reads /\ file.kind = "json" /\ file.button_device # NoButtonDevice
        dev(s) == FindDevice(s, file.button_device.mac)
        queries(s) == dev(s).is_online /\ DeviceController(dev(s).type) # None
    IN  {base}
        \cup (IF reads THEN {[base EXCEPT !.io_error = TRUE]} ELSE {})
        \cup (IF lists
              THEN {[base EXCEPT !.list = l] : l \in CallOutcomes}
                   \cup UNION {{[base EXCEPT !.snapshot = s, !.info = i, !.cmd = c] :
                                  i \in IF queries(s) THEN InfoOutcomes ELSE {"off"},
                                  c \in IF queries(s) THEN CallOutcomes ELSE {"ok"}} :
                               s \in SnapshotsFor(file.button_device.mac)}
              ELSE {})

\* ------------------------------------------------------------ web routes
AuthFail == [ok |-> FALSE]

\* the authentication outcomes a get_client() call can consume in token
\* state self at time t: none when the token is fresh, the login outcome
\* when no refresh token is held, else the refresh outcome and, when the
\* refresh fails, the login outcome
NetFor(self, t) ==
    IF ~IsTokenExpired(self, t)
    THEN {[refresh |-> AuthFail, login |-> AuthFail]}
    ELSE IF self.refresh_token = None
    THEN {[refresh |-> AuthFail, login |-> o] : o \in AuthOutcomes}
    ELSE {[refresh |-> o, login |-> AuthFail] : o \in AuthOutcomes \ {AuthFail}}
         \cup {[refresh |-> AuthFail, login |-> o] : o \in AuthOutcomes}

\* the routes that do not render the token state draw their tokens from one
\* access token of the default lifetime
RouteTokenData == {td \in TokenData : td.access_token = "a1" /\ "expires_in" \notin DOMAIN td}
RouteNets(self, t) ==
    {n \in NetFor(self, t) :
        /\ n.refresh.ok => n.refresh.data \in RouteTokenData
        /\ n.login.ok => n.login.data \in RouteTokenData}

\* the <action> segment of /toggle/<mac>/<action>
Actions == {"on", "off", "dim"}

NoResp ==
    [route |-> None, kind |-> None, flash |-> None, saved |-> FALSE,
     mac |-> None, action |-> None, listed |-> None, device |-> NoDevice,
     cmd |-> NoCmd, cmd_out |-> None, shown |-> {}]

\* toggle_device(mac, action) of main.py once get_client() has returned or
\* raised: the response and the command sent
ToggleRoute(raised, mac, action, list, snapshot, cmd_out) ==
    LET device == FindDevice(snapshot, mac)
        ctrl == DeviceController(device.type)
        op == IF action = "on" THEN "turn_on"
              ELSE IF action = "off" THEN "turn_off" ELSE None
        base == [NoResp EXCEPT !.route = "toggle", !.mac = mac, !.action = action]
        seen == [base EXCEPT !.listed = list, !.device = device]
    IN  IF raised THEN [base EXCEPT !.kind = "error"]
        ELSE IF list = "WyzeApiError"
        THEN [base EXCEPT !.listed = list, !.kind = "error"]
        ELSE IF list # "ok"
        THEN [base EXCEPT !.listed = list, !.kind = "unhandled"]
        \* device.nickname is read before the device is tested
        ELSE IF device = NoDevice THEN [seen EXCEPT !.kind = "unhandled"]
        ELSE IF op = None THEN [seen EXCEPT !.kind = "redirect"]
        \* controller is None for a type outside device_controllers
        ELSE IF ctrl = None THEN [seen EXCEPT !.kind = "unhandled"]
        ELSE [seen EXCEPT !.cmd = [ctrl |-> ctrl, op |-> op, mac |-> device.mac],
                          !.cmd_out = cmd_out,
                          !.kind = IF cmd_out = "ok" THEN "redirect"
                                   ELSE IF cmd_out = "WyzeApiError" THEN "error"
                                   ELSE "unhandled"]

\* the message a route flashes for the value set/clear returned
FlashFor(route, saved) ==
    IF ~saved THEN "error"
    ELSE IF route = "set" THEN "success" ELSE "info"

\* --------------------------------------------------------------- machine
VARIABLES now, tm, call, nextId, bproc, ctrl_client, last_press_time,
          file, press, accepted_at,
          env_ok, cfgmem, wr, last_op, resp, flashed, got, pseen, cb,
          accepted_issued

vars == <<now, tm, call, nextId, bproc, ctrl_client, last_press_time,
          file, press, accepted_at,
          env_ok, cfgmem, wr, last_op, resp, flashed, got, pseen, cb,
          accepted_issued>>

tokenVars == <<tm, call, nextId>>
buttonVars == <<bproc, ctrl_client, last_press_time, press, accepted_at,
                accepted_issued>>
\* config_data of each process, the write in progress, the last set/clear
storeVars == <<cfgmem, wr, last_op>>

NoCall ==
    [proc |-> None, n |-> 0, t |-> 0, pre |-> TokenManagerInit,
     calls |-> <<>>, outs |-> <<>>, raised |-> FALSE, applied |-> <<>>,
     ret |-> NoClient, prev |-> NoClient]

NoWrite == [pc |-> "idle", route |-> None, old |-> Truncated, new |-> Truncated]
NoOp ==
    [op |-> None, device |-> NoButtonDevice, old |-> Truncated, out |-> None,
     saved |-> FALSE]
NoGet == [proc |-> None, value |-> NoButtonDevice, file |-> Truncated]
\* the press callbacks the platform may run at the same time
Callbacks == {1, 2}
NoCallback == [pc |-> "idle", t |-> 0, read |-> 0, passed |-> FALSE, issued |-> FALSE]

\* both processes imported token_manager and button_config; nothing ran yet
InitWith(envs, io_errors) ==
    /\ now = StartTime
    /\ tm = [p \in Procs |-> TokenManagerInit]
    /\ call = [p \in Procs |-> NoCall]
    /\ nextId = 1
    /\ bproc = "init"
    /\ ctrl_client = NoClient
    /\ last_press_time = 0
    /\ file \in FileContents
    /\ press = NoPress
    /\ accepted_at = 0
    /\ env_ok \in envs
    /\ \E io \in [Procs -> io_errors] :
         cfgmem = [p \in Procs |-> LoadConfig(file, io[p])]
    /\ wr = NoWrite
    /\ last_op = NoOp
    /\ resp = NoResp
    /\ flashed = {}
    /\ got = NoGet
    /\ pseen = [file |-> Truncated, wr |-> NoWrite]
    /\ cb = [i \in Callbacks |-> NoCallback]
    /\ accepted_issued = FALSE

\* the four WYZE_* variables are set and the config file is readable
Init == InitWith({TRUE}, {FALSE})

\* the variables may be missing
InitEnv == InitWith(BOOLEAN, {FALSE})

\* the variables may be missing, the config file unreadable at import
InitAny == InitWith(BOOLEAN, BOOLEAN)

\* the record of one get_client call of process p
CallRecord(p, r) ==
    [proc |-> p, n |-> IF call[p].n < 2 THEN call[p].n + 1 ELSE 2,
     t |-> now, pre |-> tm[p], calls |-> r.calls, outs |-> r.outs,
     raised |-> r.raised,
     applied |-> r.applied, ret |-> r.ret,
     prev |-> IF call[p].n = 0 \/ call[p].raised THEN NoClient
              ELSE call[p].ret]

\* one call of token_manager.get_client() in process p
DoGetClient(p, r) ==
    /\ nextId <= MaxClients
    /\ tm' = [tm EXCEPT ![p] = r.self]
    /\ call' = [call EXCEPT ![p] = CallRecord(p, r)]
    /\ nextId' = IF r.applied # <<>> THEN nextId + 1 ELSE nextId

\* with a variable missing no login can succeed
EnvAllows(net) == env_ok \/ ~net.login.ok

Tick ==
    /\ now < StartTime + MaxTime
    /\ now' = now + 1
    /\ UNCHANGED <<tokenVars, buttonVars, file, env_ok, storeVars, resp, flashed,
                   got, pseen, cb>>

\* a start-up that goes on after a failed initialize()
AfterInitialize_Continue(raised) == "running"

\* initialize(): sys.exit(1) when get_client() raised, else the start-up
\* goes on to register the press handler
AfterInitialize(raised) == IF raised THEN "exited" ELSE "running"

\* button.py start-up: the controller is created, initialize() runs, the
\* status is shown (it reads the in-memory config and changes nothing) and
\* the press handler is registered
ButtonStart ==
    /\ bproc = "init"
    /\ \E net \in NetInputs :
         LET r == GetClient(tm["button"], net, now, nextId)
         IN  /\ EnvAllows(net)
             /\ DoGetClient("button", r)
             /\ bproc' = AfterInitialize(r.raised)
             /\ ctrl_client' = IF r.raised THEN ctrl_client ELSE r.ret
             /\ got' = IF r.raised THEN got
                       ELSE [proc |-> "button",
                             value |-> GetButtonDevice(cfgmem["button"]),
                             file |-> file]
    /\ UNCHANGED <<now, last_press_time, file, press, accepted_at, accepted_issued,
                   env_ok, storeVars, resp, flashed, pseen, cb>>

\* a handler that takes the config from the ButtonConfig of its process
PressSource_Cached == Dump(cfgmem["button"])

\* the file get_target_device opens on a press
PressSource == file

\* an edge event: button.when_pressed runs controller.toggle_device
ButtonPress ==
    /\ bproc = "running"
    /\ \E in \in PressInputs(last_press_time, PressSource, now) :
         LET r == ToggleDevice(last_press_time, PressSource, now, in)
         IN  /\ press' = r
             /\ last_press_time' = r.last
             /\ accepted_at' = IF r.kind = "accepted" THEN now ELSE accepted_at
             /\ accepted_issued' = IF r.kind = "accepted" THEN r.cmd # NoCmd
                                   ELSE accepted_issued
    /\ pseen' = [file |-> file, wr |-> wr]
    /\ UNCHANGED <<now, tokenVars, bproc, ctrl_client, file,
                   env_ok, storeVars, resp, flashed, got, cb>>

\* main.py index(): validate_env_vars, get_client, devices_list, then the
\* in-memory button device; the page it renders has an empty flash-messages
\* block, the flashed messages stay in the session
WebIndex ==
    /\ wr.pc = "idle"
    /\ IF ~env_ok
       THEN /\ resp' = [NoResp EXCEPT !.route = "index", !.kind = "error"]
            /\ UNCHANGED <<tokenVars, got>>
       ELSE \E net \in NetFor(tm["web"], now) :
              LET r == GetClient(tm["web"], net, now, nextId)
              IN  /\ DoGetClient("web", r)
                  /\ \E list \in (IF r.raised THEN {"ok"} ELSE CallOutcomes) :
                       /\ resp' = [NoResp EXCEPT
                                     !.route = "index",
                                     !.listed = IF r.raised THEN None ELSE list,
                                     !.kind = IF r.raised \/ list = "WyzeApiError"
                                              THEN "error"
                                              ELSE IF list = "ok" THEN "html"
                                              ELSE "unhandled"]
                       /\ got' = IF ~r.raised /\ list = "ok"
                                 THEN [proc |-> "web",
                                       value |-> GetButtonDevice(cfgmem["web"]),
                                       file |-> file]
                                 ELSE got
    /\ UNCHANGED <<now, buttonVars, file, env_ok, storeVars, flashed, pseen, cb>>

\* main.py toggle_device(mac, action)
WebToggle ==
    /\ wr.pc = "idle"
    /\ \E mac \in MACs, action \in Actions, net \in RouteNets(tm["web"], now) :
         LET r == GetClient(tm["web"], net, now, nextId)
         IN  /\ EnvAllows(net)
             /\ DoGetClient("web", r)
             /\ \E list \in (IF r.raised THEN {"ok"} ELSE CallOutcomes) :
                \E s \in (IF r.raised \/ list # "ok" THEN {{}} ELSE SnapshotsFor(mac)) :
                \E c \in (IF ToggleRoute(r.raised, mac, action, list, s, "ok").cmd = NoCmd
                          THEN {"ok"} ELSE CallOutcomes) :
                   resp' = ToggleRoute(r.raised, mac, action, list, s, c)
    /\ UNCHANGED <<now, buttonVars, file, env_ok, storeVars, flashed, got, pseen,
                   cb>>

\* main.py set_button_device(mac) up to open(config_file, 'w') inside
\* _save_config: the in-memory config is set, the file is truncated
WebSetButtonDevice ==
    /\ wr.pc = "idle"
    /\ \E mac \in MACs, net \in RouteNets(tm["web"], now) :
         LET r == GetClient(tm["web"], net, now, nextId)
             base == [NoResp EXCEPT !.route = "set", !.mac = mac]
         IN  /\ EnvAllows(net)
             /\ DoGetClient("web", r)
             /\ \E list \in (IF r.raised THEN {"ok"} ELSE CallOutcomes) :
                \E s \in (IF r.raised \/ list # "ok" THEN {{}} ELSE SnapshotsFor(mac)) :
                  LET device == FindDevice(s, mac)
                      seen == [base EXCEPT !.listed = list, !.device = device]
                      args == [mac |-> device.mac, nickname |-> Nickname(device.mac)]
                      data == SetButtonDevice(cfgmem["web"], args.mac, args.nickname, now)
                  IN  IF r.raised \/ list = "WyzeApiError"
                      THEN /\ resp' = [base EXCEPT !.kind = "redirect", !.flash = "error",
                                                   !.listed = IF r.raised THEN None ELSE list]
                           /\ flashed' = flashed \cup {"error"}
                           /\ UNCHANGED <<file, storeVars>>
                      ELSE IF list # "ok"
                      THEN /\ resp' = [base EXCEPT !.kind = "unhandled", !.listed = list]
                           /\ UNCHANGED <<file, storeVars, flashed>>
                      ELSE IF device = NoDevice
                      THEN /\ resp' = [seen EXCEPT !.kind = "redirect", !.flash = "error"]
                           /\ flashed' = flashed \cup {"error"}
                           /\ UNCHANGED <<file, storeVars>>
                      ELSE \E open \in {"ok", "open_error"} :
                             /\ cfgmem' = [cfgmem EXCEPT !["web"] = data]
                             /\ IF open = "ok"
                                THEN /\ file' = Truncated
                                     /\ wr' = [pc |-> "writing", route |-> "set",
                                               old |-> file, new |-> Dump(data)]
                                     /\ last_op' = [op |-> "set", device |-> args,
                                                    old |-> file,
                                                    out |-> None, saved |-> FALSE]
                                     /\ resp' = [seen EXCEPT !.kind = "pending"]
                                     /\ UNCHANGED flashed
                                ELSE /\ UNCHANGED <<file, wr>>
                                     /\ last_op' = [op |-> "set", device |-> args,
                                                    old |-> file,
                                                    out |-> open,
                                                    saved |-> SaveResult(open)]
                                     /\ resp' = [seen EXCEPT
                                                   !.kind = "redirect",
                                                   !.saved = SaveResult(open),
                                                   !.flash = FlashFor("set", SaveResult(open))]
                                     /\ flashed' = flashed \cup
                                                     {FlashFor("set", SaveResult(open))}
    /\ UNCHANGED <<now, buttonVars, env_ok, got, pseen, cb>>

\* main.py clear_button_device() up to open(config_file, 'w')
WebClearButtonDevice ==
    /\ wr.pc = "idle"
    /\ LET data == ClearButtonDevice(cfgmem["web"])
           base == [NoResp EXCEPT !.route = "clear"]
       IN  \E open \in {"ok", "open_error"} :
             /\ cfgmem' = [cfgmem EXCEPT !["web"] = data]
             /\ IF open = "ok"
                THEN /\ file' = Truncated
                     /\ wr' = [pc |-> "writing", route |-> "clear",
                               old |-> file, new |-> Dump(data)]
                     /\ last_op' = [op |-> "clear", device |-> NoButtonDevice,
                                    old |-> file,
                                    out |-> None, saved |-> FALSE]
                     /\ resp' = [base EXCEPT !.kind = "pending"]
                     /\ UNCHANGED flashed
                ELSE /\ UNCHANGED <<file, wr>>
                     /\ last_op' = [op |-> "clear", device |-> NoButtonDevice,
                                    old |-> file,
                                    out |-> open, saved |-> SaveResult(open)]
                     /\ resp' = [base EXCEPT !.kind = "redirect",
                                             !.saved = SaveResult(open),
                                             !.flash = FlashFor("clear", SaveResult(open))]
                     /\ flashed' = flashed \cup {FlashFor("clear", SaveResult(open))}
    /\ UNCHANGED <<now, tokenVars, buttonVars, env_ok, got, pseen, cb>>

\* the rest of _save_config and of the route: json.dump completes or raises
\* IOError, the route flashes the result and redirects
WebSaveFinish ==
    /\ wr.pc = "writing"
    /\ \E out \in {"ok", "write_error"} :
         /\ file' = IF out = "ok" THEN wr.new ELSE file
         /\ last_op' = [last_op EXCEPT !.out = out, !.saved = SaveResult(out)]
         /\ flashed' = flashed \cup {FlashFor(wr.route, SaveResult(out))}
         /\ resp' = [resp EXCEPT !.kind = "redirect",
                                 !.saved = SaveResult(out),
                                 !.flash = FlashFor(wr.route, SaveResult(out))]
    /\ wr' = NoWrite
    /\ UNCHANGED <<now, tokenVars, buttonVars, env_ok, cfgmem, got, pseen, cb>>

\* toggle_device run as callback i, up to the debounce test: the time is
\* taken, last_press_time is read and compared
CallbackCheck(i) ==
    /\ bproc = "running"
    /\ cb[i].pc = "idle"
    /\ cb' = [cb EXCEPT ![i] =
                [pc |-> IF Debounced(now, last_press_time) THEN "done" ELSE "checked",
                 t |-> now, read |-> last_press_time,
                 passed |-> ~Debounced(now, last_press_time),
                 issued |-> FALSE]]
    /\ UNCHANGED <<now, tokenVars, buttonVars, file, env_ok, storeVars, resp,
                   flashed, got, pseen>>

\* the rest of callback i: last_press_time is written, the target is
\* resolved and the command sent
CallbackFinish(i) ==
    /\ cb[i].pc = "checked"
    /\ \E in \in PressInputs(cb[i].read, PressSource, cb[i].t) :
         LET r == ToggleDevice(cb[i].read, PressSource, cb[i].t, in)
         IN  cb' = [cb EXCEPT ![i].pc = "done", ![i].issued = (r.cmd # NoCmd)]
    /\ last_press_time' = cb[i].t
    /\ UNCHANGED <<now, tokenVars, bproc, ctrl_client, press, accepted_at,
                   accepted_issued, file,
                   env_ok, storeVars, resp, flashed, got, pseen>>

Next ==
    \/ Tick
    \/ ButtonStart
    \/ ButtonPress
    \/ WebIndex
    \/ WebToggle
    \/ WebSetButtonDevice
    \/ WebClearButtonDevice
    \/ WebSaveFinish
    \/ \E i \in Callbacks : CallbackCheck(i)
    \/ \E i \in Callbacks : CallbackFinish(i)

Spec == Init /\ [][Next]_vars

\* the token cache alone, as the web process drives it
NextToken ==
    \/ Tick
    \/ WebIndex

SpecToken == Init /\ [][NextToken]_vars

\* the button process alone
NextButton ==
    \/ Tick
    \/ ButtonStart
    \/ ButtonPress

SpecButton == Init /\ [][NextButton]_vars

\* the toggle route alone, at one instant, whatever the environment
NextToggle ==
    \/ WebToggle

SpecToggle == InitEnv /\ [][NextToggle]_vars

\* the routes that write the config file, at one instant
NextStore ==
    \/ WebSetButtonDevice
    \/ WebClearButtonDevice
    \/ WebSaveFinish

SpecStore == InitAny /\ [][NextStore]_vars

\* the clear route and the page the user is redirected to, at one instant
NextFlash ==
    \/ WebIndex
    \/ WebClearButtonDevice
    \/ WebSaveFinish

SpecFlash == Init /\ [][NextFlash]_vars

\* the button process while the web process clears the config
NextConfig ==
    \/ Tick
    \/ ButtonStart
    \/ ButtonPress
    \/ WebClearButtonDevice
    \/ WebSaveFinish

SpecConfig == Init /\ [][NextConfig]_vars

\* the button process on a platform that runs two press callbacks at once
NextRace ==
    \/ Tick
    \/ ButtonStart
    \/ \E i \in Callbacks : CallbackCheck(i)
    \/ \E i \in Callbacks : CallbackFinish(i)

SpecRace == Init /\ [][NextRace]_vars
\* ------------------------------------------------------------ token cache
Called(p) == call[p].n > 0

\* the token state a call found: an access token held, expiring strictly
\* more than 5 minutes after the call
FreshAt(c) ==
    /\ c.pre.access_token # None
    /\ c.pre.expires_at # NoExpiry
    /\ c.pre.expires_at > c.t + ExpiryBuffer

\* the token state a call found: no expiry, or expiring at most 5 minutes
\* after the call
StaleAt(c) ==
    \/ c.pre.expires_at = NoExpiry
    \/ c.pre.expires_at <= c.t + ExpiryBuffer

LifetimeOf(token_data) ==
    IF "expires_in" \in DOMAIN token_data THEN token_data.expires_in
    ELSE 3600 * TicksPerSecond

\* C1: a get_client() call that finds an access token expiring strictly more
\* than 5 minutes later makes no login and no refresh call, and returns the
\* client already held.
C1_FreshTokenNoNetwork ==
    \A p \in Procs :
        (Called(p) /\ FreshAt(call[p])) =>
            /\ call[p].calls = <<>>
            /\ ~call[p].raised
            /\ call[p].ret = call[p].pre.client
            /\ call[p].ret # NoClient
            /\ tm[p] = call[p].pre

C1_Witness ==
    \E p \in Procs :
        /\ Called(p) /\ FreshAt(call[p])
        /\ call[p].calls = <<>>
        /\ call[p].pre.expires_at = call[p].t + ExpiryBuffer + 1

\* C2: a get_client() call that finds no expiry, or an expiry at most 5
\* minutes later (exactly 5 minutes included), makes exactly one
\* refresh-or-login cycle, and when the cycle succeeds expires_at becomes
\* the time of the call plus the lifetime of the response.
C2_StaleTokenOneCycle ==
    \A p \in Procs :
        (Called(p) /\ StaleAt(call[p])) =>
            /\ call[p].calls \in {<<"refresh">>, <<"login">>, <<"refresh", "login">>}
            /\ Len(call[p].applied) = (IF call[p].raised THEN 0 ELSE 1)
            /\ ~call[p].raised =>
                 tm[p].expires_at = call[p].t + LifetimeOf(call[p].applied[1])
            /\ call[p].raised => tm[p].expires_at = call[p].pre.expires_at

C2_Witness ==
    \E p \in Procs :
        /\ Called(p)
        /\ call[p].pre.expires_at = call[p].t + ExpiryBuffer
        /\ ~call[p].raised
        /\ tm[p].expires_at = call[p].t + LifetimeOf(call[p].applied[1])

C5_ClientReuse ==
    \A p \in Procs :
        Called(p) =>
            /\ call[p].calls = <<>> =>
                 /\ call[p].ret = call[p].pre.client
                 /\ call[p].n >= 2 => call[p].ret = call[p].prev
            /\ call[p].applied # <<>> =>
                 /\ call[p].ret.id # call[p].pre.client.id
                 /\ call[p].n >= 2 => call[p].ret.id # call[p].prev.id
                 /\ call[p].ret.token = call[p].applied[1].access_token
                 /\ tm[p].access_token = call[p].applied[1].access_token
            /\ ~call[p].raised => tm[p].client = call[p].ret

C5_Witness ==
    \E p \in Procs :
        /\ call[p].n >= 2
        /\ call[p].calls = <<>>
        /\ call[p].ret = call[p].prev
        /\ call[p].ret # NoClient
\* --------------------------------------------------------- press handler
Pressed == press.kind # "none"
Issued == press.cmd # NoCmd

\* C6: a press issues a turn_on/turn_off only if the config file held a
\* button device, its MAC is the MAC of a device listed during the press and
\* that device is online; with no file, a null device, an absent MAC or an
\* offline device the press issues nothing.
C6_CommandOnlyForOnlineTarget ==
    /\ Issued =>
         /\ press.kind = "accepted"
         /\ press.file.kind = "json"
         /\ press.file.button_device # NoButtonDevice
         /\ press.listed = "ok"
         /\ press.file.button_device.mac \in press.snap_macs
         /\ press.device.mac = press.file.button_device.mac
         /\ press.device.is_online
         /\ press.cmd.mac = press.file.button_device.mac
    /\ (press.kind = "accepted" /\ press.file.kind # "json") => ~Issued
    /\ (press.kind = "accepted" /\ press.file.button_device = NoButtonDevice) => ~Issued
    /\ (press.kind = "accepted" /\ press.listed = "ok"
          /\ press.file.button_device.mac \notin press.snap_macs) => ~Issued
    /\ (press.kind = "accepted" /\ press.diag = "device offline") => ~Issued

C6_Witness ==
    /\ Issued
    /\ press.device.is_online
    /\ press.device.mac = press.file.button_device.mac

\* C7: a press less than the debounce delay after the last accepted press is
\* ignored: it issues nothing, calls nothing and leaves last_press_time
\* alone, so last_press_time is always the time of the last accepted press
\* and every press is measured against that one.
C7_DebounceHardFloor ==
    /\ last_press_time = accepted_at
    /\ Pressed =>
         /\ press.kind = "ignored" <=> press.t - press.pre_last < 1 * TicksPerSecond
         /\ press.kind = "ignored" =>
              /\ ~Issued
              /\ press.listed = None
              /\ press.last = press.pre_last
              /\ last_press_time = press.pre_last
         /\ press.kind = "accepted" => last_press_time = press.t

C7_Witness ==
    /\ press.kind = "ignored"
    /\ press.t > press.pre_last
    /\ last_press_time = press.pre_last

\* C8: on a resolved online device the command is the inverse of the
\* observed state, through the controller of the device type: a Plug seen
\* OFF gets plugs.turn_on, a Bulb, MeshLight or Light seen ON gets
\* bulbs.turn_off, a device of another type gets no command.
C8_InverseCommand ==
    (press.kind = "accepted" /\ press.device # NoDevice) =>
        /\ press.device.type \notin {"Plug", "Bulb", "MeshLight", "Light"} => ~Issued
        /\ (press.device.type = "Plug" /\ press.info \in {"on", "off"}) =>
             press.cmd = [ctrl |-> "plugs",
                          op |-> IF press.info = "off" THEN "turn_on" ELSE "turn_off",
                          mac |-> press.device.mac]
        /\ (press.device.type \in {"Bulb", "MeshLight", "Light"}
              /\ press.info \in {"on", "off"}) =>
             press.cmd = [ctrl |-> "bulbs",
                          op |-> IF press.info = "on" THEN "turn_off" ELSE "turn_on",
                          mac |-> press.device.mac]
        /\ Issued =>
             /\ press.observed \in {"ON", "OFF"}
             /\ press.cmd.op = (IF press.observed = "ON" THEN "turn_off" ELSE "turn_on")
             /\ press.info = "on" <=> press.observed = "ON"

C8_Witness ==
    /\ press.kind = "accepted"
    /\ press.device.type = "Bulb"
    /\ press.info = "on"
    /\ press.cmd = [ctrl |-> "bulbs", op |-> "turn_off", mac |-> press.device.mac]

\* C9: whatever fails during a press, the press handler returns normally.
C9_PressAlwaysReturns ==
    Pressed => press.result = "returned"

\* C10: every accepted press that reaches the device directory is run with
\* a client whose access token has not expired at the time of the press.
C10_PressUsesValidClient ==
    (press.kind = "accepted" /\ press.listed # None) =>
        /\ ctrl_client = tm["button"].client
        /\ press.t < tm["button"].expires_at

\* ------------------------------------------------------------ config store
\* C11: set(mac, nickname) followed by get() returns {mac, nickname},
\* clear() followed by get() returns null, after any sequence of set and
\* clear; and a record saved with success loads back as the same device.
C11_ConfigRoundTrip ==
    /\ last_op.op = "set" => GetButtonDevice(cfgmem["web"]) = last_op.device
    /\ last_op.op = "clear" => GetButtonDevice(cfgmem["web"]) = NoButtonDevice
    /\ last_op.out = "ok" =>
         GetButtonDevice(LoadConfig(file, FALSE)) = GetButtonDevice(cfgmem["web"])

C11_Witness ==
    /\ last_op.op = "set"
    /\ last_op.out = "ok"
    /\ last_op.device = [mac |-> "m2", nickname |-> Nickname("m2")]
    /\ GetButtonDevice(LoadConfig(file, FALSE)) = last_op.device

\* the device the config file holds, none when it is absent or not JSON
Persisted(f) == IF f.kind = "json" THEN f.button_device ELSE NoButtonDevice

C13_GetReturnsPersisted ==
    (got.proc # None /\ got.file.kind = "json") =>
        got.value = got.file.button_device

\* C14: a press that runs while a set or clear is writing the config file
\* finds the complete file from before the write or the complete file after.
C14_AtomicWrite ==
    (press.kind = "accepted" /\ pseen.wr.pc = "writing") =>
        pseen.file \in {pseen.wr.old, pseen.wr.new}

\* C15: with the config file absent or not JSON, get() of a ButtonConfig
\* loaded from it returns null, and a press that can read the file returns
\* with no target, no directory call and no command.
C15_TolerantReads ==
    /\ \A p \in Procs :
         file.kind \in {"missing", "corrupt"} =>
             GetButtonDevice(cfgmem[p]) = NoButtonDevice
    /\ (press.kind = "accepted" /\ press.file.kind \in {"missing", "corrupt"}
                                /\ press.exc # "IOError") =>
         /\ press.result = "returned"
         /\ press.cfg = NoButtonDevice
         /\ press.device = NoDevice
         /\ press.listed = None
         /\ ~Issued

C15_Witness ==
    /\ press.kind = "accepted"
    /\ press.file.kind = "corrupt"
    /\ press.diag = "invalid json"
    /\ GetButtonDevice(cfgmem["button"]) = NoButtonDevice

\* C16: with a required environment variable missing, no route makes a
\* login, refresh or device call.
C16_NoNetworkWithoutEnv ==
    ~env_ok => (call["web"].calls = <<>> /\ resp.listed = None)

\* C17: after a successful login or refresh the token manager holds the
\* access token and the refresh token of the response, and expires_at is
\* the time of the call plus expires_in, or plus 3600 s without expires_in.
C17_TokensStored ==
    \A p \in Procs :
        (Called(p) /\ call[p].applied # <<>>) =>
            /\ tm[p].access_token = call[p].applied[1].access_token
            /\ tm[p].refresh_token = call[p].applied[1].refresh_token
            /\ tm[p].expires_at = call[p].t + LifetimeOf(call[p].applied[1])

C17_Witness ==
    \E p \in Procs :
        /\ Called(p)
        /\ call[p].calls = <<"refresh">>
        /\ call[p].applied # <<>>
        /\ "expires_in" \notin DOMAIN call[p].applied[1]
        /\ tm[p].expires_at = call[p].t + 3600 * TicksPerSecond

\* C18: once a set or clear has failed to write the file, the page the user
\* is sent to shows the error.
C18_FailureReported ==
    (resp.route = "index" /\ resp.kind = "html" /\ "error" \in flashed) =>
        "error" \in resp.shown

\* C19: a toggle request for a MAC the directory does not list, or for a
\* device whose type has no controller, sends no command and ends in an
\* error fragment or a redirect.
C19_ToggleAlwaysResponds ==
    (resp.route = "toggle" /\ resp.listed = "ok"
       /\ (resp.device = NoDevice \/ DeviceController(resp.device.type) = None)) =>
        /\ resp.cmd = NoCmd
        /\ resp.kind \in {"error", "redirect"}

\* C20: a press whose state query on an online device of a supported type
\* fails takes the state as OFF and issues turn_on.
C20_QueryFailureTurnsOn ==
    (press.kind = "accepted" /\ press.device # NoDevice
       /\ DeviceController(press.device.type) # None
       /\ press.info \in {"WyzeApiError", "Exception"}) =>
        /\ press.observed = "OFF"
        /\ press.cmd.op = "turn_on"

\* ------------------------------------------------------- frames and races
\* C21: one get_client() call makes at most one refresh and at most one
\* login, the login never before the refresh; a failed login is the last
\* attempt of the call, which then raises and leaves access_token,
\* refresh_token, expires_at and client as they were before the call.
C21_NoRetries ==
    \A p \in Procs :
        Called(p) =>
            /\ call[p].calls \in {<<>>, <<"refresh">>, <<"login">>, <<"refresh", "login">>}
            /\ Len(call[p].outs) = Len(call[p].calls)
            /\ \A i \in 1..Len(call[p].calls) :
                 (call[p].calls[i] = "login" /\ call[p].outs[i] # "ok") =>
                     /\ i = Len(call[p].calls)
                     /\ call[p].raised
                     /\ call[p].applied = <<>>
                     /\ tm[p] = call[p].pre

C21_Witness ==
    \E p \in Procs :
        /\ Called(p)
        /\ call[p].pre.access_token # None
        /\ call[p].pre.client # NoClient
        /\ call[p].calls = <<"refresh", "login">>
        /\ call[p].outs = <<"WyzeApiError", "WyzeApiError">>
        /\ call[p].raised
        /\ tm[p] = call[p].pre

\* C22: when the get_client() of the start-up of the button process fails,
\* the process exits with no press handler: it handles no press and issues
\* no command, then or later.
C22_AuthFailureFatal ==
    /\ (Called("button") /\ call["button"].raised) => bproc = "exited"
    /\ bproc = "exited" =>
         /\ press = NoPress
         /\ ~Issued
         /\ ctrl_client = NoClient
         /\ last_press_time = 0

C22_Witness ==
    /\ Called("button")
    /\ call["button"].raised
    /\ bproc = "exited"
    /\ now = StartTime + MaxTime
    /\ press = NoPress

\* C23: a callback passes the debounce test on the last_press_time it read,
\* whatever another callback has read and not yet written; so two callbacks
\* that both read before either wrote both pass, less than the delay apart,
\* and both issue a command.
C23_DebounceRace ==
    /\ \A i \in Callbacks :
         cb[i].pc # "idle" =>
             (cb[i].passed <=> cb[i].t - cb[i].read >= debounce_delay)
    /\ \A i, j \in Callbacks :
         (i # j /\ cb[i].passed /\ cb[j].passed
              /\ cb[i].t - cb[j].t < debounce_delay
              /\ cb[j].t - cb[i].t < debounce_delay) =>
             (cb[i].read # cb[j].t /\ cb[j].read # cb[i].t)

C23_Witness ==
    /\ cb[1].pc = "done" /\ cb[2].pc = "done"
    /\ cb[1].passed /\ cb[2].passed
    /\ cb[1].read = cb[2].read
    /\ cb[1].t # cb[2].t
    /\ cb[1].t - cb[2].t < debounce_delay
    /\ cb[2].t - cb[1].t < debounce_delay
    /\ cb[1].issued /\ cb[2].issued

\* C24: a press that passes the debounce test becomes the previous accepted
\* press whether or not it sends a command, and a press less than the delay
\* after it is ignored, also when neither of the two sent a command.
C24_TimeRecordedBeforeResolve ==
    /\ press.kind = "accepted" =>
         /\ last_press_time = press.t
         /\ accepted_at = press.t
         /\ accepted_issued = Issued
    /\ press.kind = "ignored" =>
         /\ press.pre_last = accepted_at
         /\ last_press_time = accepted_at
         /\ press.t - accepted_at < debounce_delay
         /\ ~Issued

C24_Witness ==
    /\ press.kind = "ignored"
    /\ accepted_at >= StartTime
    /\ ~accepted_issued
    /\ press.t > accepted_at

\* C25: after any sequence of get_client() calls, returning or raising, the
\* token manager holds none of access_token, refresh_token, expires_at and
\* client, or all four, and then the client is the one created for the
\* access token held.
C25_TokenStateConsistent ==
    \A p \in Procs :
        \/ tm[p] = TokenManagerInit
        \/ /\ tm[p].access_token # None
           /\ tm[p].refresh_token # None
           /\ tm[p].expires_at # NoExpiry
           /\ tm[p].client # NoClient
           /\ tm[p].client.token = tm[p].access_token

C25_Witness ==
    \E p \in Procs :
        /\ Called(p)
        /\ call[p].raised
        /\ tm[p].access_token = "a2"
        /\ tm[p].client.token = "a2"
        /\ tm[p].client.id > 1

\* C26: a /set_button_device/<mac> request that finds <mac> in the directory
\* it fetched puts that MAC and the nickname the directory gives it into the
\* config; a request whose MAC is not listed, or whose directory call or
\* get_client() fails, leaves the in-memory config and the file as they were.
C26_SetRouteFrame ==
    [][(wr.pc = "idle" /\ resp'.route = "set") =>
          IF resp'.device = NoDevice
          THEN /\ cfgmem' = cfgmem
               /\ file' = file
               /\ wr' = wr
               /\ last_op' = last_op
          ELSE /\ resp'.listed = "ok"
               /\ resp'.device.mac = resp'.mac
               /\ GetButtonDevice(cfgmem'["web"]) =
                      [mac |-> resp'.mac, nickname |-> Nickname(resp'.mac)]
               /\ cfgmem'["button"] = cfgmem["button"]
               /\ file' \in {file, Truncated}]_vars

C26_Witness ==
    /\ resp.route = "set"
    /\ resp.listed = "ok"
    /\ resp.device = NoDevice
    /\ resp.flash = "error"
    /\ wr.pc = "idle"
    /\ file.kind = "json"
    /\ file.button_device # NoButtonDevice
    /\ file.button_device.mac # resp.mac
    /\ GetButtonDevice(cfgmem["web"]) = file.button_device

\* C27: after a set or clear that returned false, get() on the same instance
\* returns the new value and the file still holds the record it held before
\* the operation.
C27_NoRollback ==
    (last_op.out \in {"open_error", "write_error"}) =>
        /\ ~last_op.saved
        /\ GetButtonDevice(cfgmem["web"]) = last_op.device
        /\ file = last_op.old
====
